---- MODULE Spec2Model ----
(***************************************************************************)
(* cargo-git-release: the release pipeline of src/src/lib.rs               *)
(* (ReleaseTool::run and the functions it calls) and the entry point of    *)
(* src/src/bin/cargo-git-release.rs, as a state machine.                   *)
(*                                                                         *)
(* A version string is a sequence of one-character strings.  A file on     *)
(* disk is modelled by the value it parses to: a TOML/JSON table is a      *)
(* function from keys to values, so that formatting is abstracted away     *)
(* but the split of a document into known fields and the flattened         *)
(* `other` bag, and the merge back on serialization, are computed.         *)
(* git is an external black box: every query result and every exit status  *)
(* is an input chosen when the command is run, and a command may fail to   *)
(* start (the Err of Command::status / Command::output, propagated by `?`).*)
(* A manifest or config that does not deserialize ends the run with the    *)
(* parse error; reading and writing an existing file is taken to succeed.  *)
(***************************************************************************)
EXTENDS Integers, Sequences, FiniteSets, TLC

VARIABLES
    args,           \* Cli: version, re_publish, force, dry_run, exclude, only
    disk,           \* file id -> None | Some(document)
    disk0,          \* the disk as it was when the process started
    pc,             \* position of run()
    result,         \* "running", "Ok", or the error run() returned
    exit_code,      \* process exit code set by main; -1 while running
    updated_files,  \* ReleaseTool.updated_files
    events,         \* commands invoked, files written and summaries printed
    cargo_toml_files, \* update_workspace_versions: files still to process
    remotes,        \* None, or Some(the lines `git remote` prints)
    idx,            \* number of remotes already handled by the current loop
    last_status,    \* how the last command ended: "ok", "fail", "io", "none"
    push_failed     \* some push (HEAD or --tags) ended with a non-zero status

vars == <<args, disk, disk0, pc, result, exit_code, updated_files, events,
          cargo_toml_files, remotes, idx, last_status, push_failed>>

-----------------------------------------------------------------------------
(* Bounds of the model *)

\* longest version string drawn for the validation specification
MaxVerLen == 7
\* largest number of remotes `git remote` lists
MaxRemotes == 2

-----------------------------------------------------------------------------
(* Option<T> *)

None == <<>>
Some(x) == <<x>>
IsSome(o) == o # None
Unwrap(o) == o[1]

Last(s) == s[Len(s)]

\* a table without the keys ks
Without(t, ks) == [k \in (DOMAIN t) \ ks |-> t[k]]

EmptyTable == [k \in {} |-> k]

-----------------------------------------------------------------------------
(* Version strings and the validation regex *)

Digits == {"0", "1", "2", "3", "4", "5", "6", "7", "8", "9"}
Letters == {"a", "b", "c", "d", "e", "f", "g", "h", "i", "j", "k", "l", "m",
            "n", "o", "p", "q", "r", "s", "t", "u", "v", "w", "x", "y", "z",
            "A", "B", "C", "D", "E", "F", "G", "H", "I", "J", "K", "L", "M",
            "N", "O", "P", "Q", "R", "S", "T", "U", "V", "W", "X", "Y", "Z"}

\* [a-zA-Z0-9\.] : the class of both suffixes in the regex of the source
SuffixClass == Letters \cup Digits \cup {"."}

\* [\w.] : letters, digits, underscore and dot
WordDotClass == Letters \cup Digits \cup {"_", "."}

\* position after the longest run of characters of class cls starting at i
RECURSIVE SkipClass(_, _, _)
SkipClass(s, i, cls) ==
    IF i <= Len(s) /\ s[i] \in cls THEN SkipClass(s, i + 1, cls) ELSE i

\* cls+ at position i: the position after it, 0 when it does not match
\* (0 also propagates an earlier failure)
MatchPlus(s, i, cls) ==
    IF i = 0 THEN 0
    ELSE LET j == SkipClass(s, i, cls) IN IF j > i THEN j ELSE 0

\* the literal character c at position i
MatchLit(s, i, c) ==
    IF i = 0 THEN 0
    ELSE IF i <= Len(s) /\ s[i] = c THEN i + 1 ELSE 0

\* (c cls+)? at position i.  No character of cls is "-" or "+", so the
\* group matches greedily or not at all.
MatchOptSuffix(s, i, c, cls) ==
    IF i = 0 THEN 0
    ELSE LET j == MatchPlus(s, MatchLit(s, i, c), cls) IN
         IF j # 0 THEN j ELSE i

\* ^\d+\.\d+\.\d+(-cls+)?(\+cls+)?$
MatchesSemver(s, cls) ==
    LET p1 == MatchPlus(s, 1, Digits)
        p2 == MatchPlus(s, MatchLit(s, p1, "."), Digits)
        p3 == MatchPlus(s, MatchLit(s, p2, "."), Digits)
        p4 == MatchOptSuffix(s, p3, "-", cls)
        p5 == MatchOptSuffix(s, p4, "+", cls)
    IN  p5 = Len(s) + 1

\* a plausible slip: the pattern left unanchored at the end
validate_version_format_open(version) ==
    LET p1 == MatchPlus(version, 1, Digits)
        p2 == MatchPlus(version, MatchLit(version, p1, "."), Digits)
        p3 == MatchPlus(version, MatchLit(version, p2, "."), Digits)
    IN  p3 # 0

\* ReleaseTool::validate_version_format: TRUE for Ok(()), FALSE for Err
validate_version_format(version) == MatchesSemver(version, SuffixClass)

-----------------------------------------------------------------------------
(* Documents on disk *)

OldVersion == <<"0", ".", "1", ".", "0">>

\* a package manifest with unrecognized keys, a nested table and arrays
PkgDoc(n) ==
    [package |-> [name |-> n, version |-> OldVersion, edition |-> "2021",
                  metadata |-> [docs |-> [features |-> <<"x", "y">>]]],
     dependencies |-> [serde |-> [version |-> "1", features |-> <<"derive">>]]]

\* a package that states no version of its own (the field is optional for
\* cargo): CargoPackage.version is a required String, so it does not parse
NoVersionPkgDoc(n) ==
    [package |-> [name |-> n, edition |-> "2021"],
     dependencies |-> [serde |-> [version |-> "1", features |-> <<"derive">>]]]

\* a virtual workspace root
WsDoc == [workspace |-> [members |-> <<"a", "b">>, resolver |-> "2"]]

\* a virtual workspace root with a shared default version
WsVerDoc ==
    [workspace |-> [members |-> <<"a", "b">>, resolver |-> "2",
                    package |-> [version |-> OldVersion, edition |-> "2021"]],
     profile |-> [release |-> [lto |-> "fat"]]]

\* a workspace root that is a package too
WsVerPkgDoc ==
    [workspace |-> [members |-> <<"a", "b">>, resolver |-> "2",
                    package |-> [version |-> OldVersion, edition |-> "2021"]],
     package |-> [name |-> "r", version |-> OldVersion, edition |-> "2021"],
     dependencies |-> [serde |-> [version |-> "1", features |-> <<"derive">>]]]

TauriDoc ==
    [version |-> OldVersion, productName |-> "app",
     build |-> [devUrl |-> "http://localhost", features |-> <<"x">>]]

\* an application config without a top-level version
TauriNoVersionDoc == [productName |-> "app"]

RootPath == "Cargo.toml"
TauriPaths == <<"tauri.conf.json", "src-tauri/tauri.conf.json">>

\* the paths WalkDir::new(".") yields for the manifests of the tree
WalkPaths == {"./Cargo.toml", "./a/Cargo.toml", "./b/Cargo.toml"}

Files == {"Cargo.toml", "a/Cargo.toml", "b/Cargo.toml",
          "tauri.conf.json", "src-tauri/tauri.conf.json"}

\* the file a path names: "./x" and "x" are the same file
FileOf(path) ==
    CASE path = "./Cargo.toml" -> "Cargo.toml"
      [] path = "./a/Cargo.toml" -> "a/Cargo.toml"
      [] path = "./b/Cargo.toml" -> "b/Cargo.toml"
      [] OTHER -> path

Exists(d, path) == IsSome(d[FileOf(path)])
ReadFile(d, path) == Unwrap(d[FileOf(path)])

-----------------------------------------------------------------------------
(* CargoToml, CargoPackage, CargoWorkspace, WorkspacePackage, TauriConfig:  *)
(* deserialization splits a table into the known fields and the flattened  *)
(* rest, serialization merges them back.  A None field is not emitted.     *)

\* does toml::from_str::<CargoToml> succeed on this document
CargoTomlParses(t) ==
    "package" \in DOMAIN t => {"name", "version"} \subseteq DOMAIN t.package

ParseCargoPackage(p) ==
    [name |-> p.name, version |-> p.version,
     other |-> Without(p, {"name", "version"})]

ParseWorkspacePackage(wp) ==
    [version |-> IF "version" \in DOMAIN wp THEN Some(wp.version) ELSE None,
     other |-> Without(wp, {"version"})]

ParseCargoWorkspace(w) ==
    [members |-> IF "members" \in DOMAIN w THEN Some(w.members) ELSE None,
     package |-> IF "package" \in DOMAIN w
                 THEN Some(ParseWorkspacePackage(w.package)) ELSE None,
     other |-> Without(w, {"members", "package"})]

\* toml::from_str::<CargoToml>
from_str(t) ==
    [package |-> IF "package" \in DOMAIN t
                 THEN Some(ParseCargoPackage(t.package)) ELSE None,
     workspace |-> IF "workspace" \in DOMAIN t
                   THEN Some(ParseCargoWorkspace(t.workspace)) ELSE None,
     other |-> Without(t, {"package", "workspace"})]

OptField(k, o) == IF IsSome(o) THEN k :> Unwrap(o) ELSE EmptyTable

SerCargoPackage(p) == ("name" :> p.name) @@ ("version" :> p.version) @@ p.other

SerWorkspacePackage(wp) == OptField("version", wp.version) @@ wp.other

SerCargoWorkspace(w) ==
    OptField("members", w.members)
    @@ (IF IsSome(w.package)
        THEN "package" :> SerWorkspacePackage(Unwrap(w.package))
        ELSE EmptyTable)
    @@ w.other

\* a plausible slip: the flattened rest of the document is not written back
to_string_drop_other(c) ==
    (IF IsSome(c.package)
     THEN "package" :> SerCargoPackage(Unwrap(c.package)) ELSE EmptyTable)
    @@ (IF IsSome(c.workspace)
        THEN "workspace" :> SerCargoWorkspace(Unwrap(c.workspace))
        ELSE EmptyTable)

\* toml::to_string / toml::to_string_pretty of a CargoToml
to_string(c) ==
    (IF IsSome(c.package)
     THEN "package" :> SerCargoPackage(Unwrap(c.package)) ELSE EmptyTable)
    @@ (IF IsSome(c.workspace)
        THEN "workspace" :> SerCargoWorkspace(Unwrap(c.workspace))
        ELSE EmptyTable)
    @@ c.other

\* does serde_json::from_str::<TauriConfig> succeed on this document
TauriConfigParses(j) == "version" \in DOMAIN j

\* serde_json::from_str::<TauriConfig>
from_json(j) == [version |-> j.version, other |-> Without(j, {"version"})]

\* serde_json::to_string_pretty of a TauriConfig
to_json(c) == c.other @@ ("version" :> c.version)

\* ReleaseTool::create_updated_cargo_toml
create_updated_cargo_toml(cargo, version) ==
    LET updated == from_str(to_string(cargo)) IN
    IF IsSome(updated.package)
    THEN [updated EXCEPT
            !.package = Some([Unwrap(updated.package) EXCEPT !.version = version])]
    ELSE updated

\* a plausible slip: the only-list is not consulted
skip_crate_ignoring_only(a, crate_name) ==
    a.exclude # {} /\ crate_name \in a.exclude

\* update_single_crate: is the crate with this name skipped
skip_crate(a, crate_name) ==
    \/ a.exclude # {} /\ crate_name \in a.exclude
    \/ a.only # {} /\ crate_name \notin a.only

\* handle_tag: the tag name
tag_name(a) == a.tag_prefix \o a.version

-----------------------------------------------------------------------------
(* Inputs *)

ValidVersion == <<"1", ".", "2", ".", "3">>
InvalidVersion == <<"1", ".", "2">>

\* the characters version strings are drawn from: a digit, the separators,
\* a letter and the underscore
VersionChars == {"1", ".", "-", "+", "a", "_"}

\* the strings over VersionChars of length n
Strings(n) == [1..n -> VersionChars]

CrateNames == {"a", "b"}

RemoteNames == <<"origin", "upstream", "backup", "mirror">>

\* the possible outputs of `git remote`
RemoteLists == {SubSeq(RemoteNames, 1, n) : n \in 0..MaxRemotes}

\* how a spawned command can end: exit status zero, non-zero, or the
\* process could not be started (Command::status / output returns Err)
Statuses == {"ok", "fail", "io"}

RootDocs == {None, Some(PkgDoc("a")), Some(NoVersionPkgDoc("a")), Some(WsDoc),
             Some(WsVerDoc), Some(WsVerPkgDoc)}
MemberADocs == {None, Some(PkgDoc("a"))}
MemberBDocs == {None, Some(PkgDoc("b")), Some(NoVersionPkgDoc("b"))}
TauriRootDocs == {None, Some(TauriDoc), Some(TauriNoVersionDoc)}
TauriSrcDocs == {None, Some(TauriDoc)}

Disks ==
    {[f \in Files |->
        CASE f = "Cargo.toml" -> r
          [] f = "a/Cargo.toml" -> ma
          [] f = "b/Cargo.toml" -> mb
          [] f = "tauri.conf.json" -> t1
          [] OTHER -> t2] :
     r \in RootDocs, ma \in MemberADocs, mb \in MemberBDocs,
     t1 \in TauriRootDocs, t2 \in TauriSrcDocs}

Clis(versions) ==
    [version : versions, re_publish : BOOLEAN, force : BOOLEAN,
     dry_run : BOOLEAN, exclude : SUBSET CrateNames, only : SUBSET CrateNames,
     tag_prefix : {<<"v">>}]

\* all orders in which a set of paths can be listed
Orders(S) ==
    {s \in [1..Cardinality(S) -> S] : \A i, j \in 1..Cardinality(S) : i # j => s[i] # s[j]}

-----------------------------------------------------------------------------
(* Helpers of the actions *)

Event(c, a) == [cmd |-> c, arg |-> a]

\* main: the exit code for what run() returned
main(r) == IF r = "Ok" THEN 0 ELSE 1

\* run() returns r and main exits
Return(r) ==
    /\ pc' = "done"
    /\ result' = r
    /\ exit_code' = main(r)

Goto(p) ==
    /\ pc' = p
    /\ UNCHANGED <<result, exit_code>>

\* a command is spawned with `.status()?`: an Err leaves run(), any exit
\* status goes on to next
Spawn(c, a, st, next) ==
    /\ events' = Append(events, Event(c, a))
    /\ last_status' = st
    /\ IF st = "io" THEN Return("IoError") ELSE Goto(next)

\* a plausible slip: a manifest without a package section is an error
update_single_crate_requiring_package(cargo_path, next) ==
    LET content == ReadFile(disk, cargo_path) IN
    IF ~CargoTomlParses(content) \/ ~IsSome(from_str(content).package)
    THEN /\ Return("ParseError")
         /\ UNCHANGED <<disk, updated_files, events>>
    ELSE LET cargo == from_str(content) IN
         IF ~skip_crate(args, Unwrap(cargo.package).name)
         THEN /\ disk' = [disk EXCEPT ![FileOf(cargo_path)] =
                    Some(to_string(create_updated_cargo_toml(cargo, args.version)))]
              /\ updated_files' = Append(updated_files, cargo_path)
              /\ events' = Append(events, Event("write", cargo_path))
              /\ Goto(next)
         ELSE /\ Goto(next)
              /\ UNCHANGED <<disk, updated_files, events>>

\* a plausible slip: the path is recorded before the filters are consulted
update_single_crate_recording_skipped(cargo_path, next) ==
    LET content == ReadFile(disk, cargo_path) IN
    IF ~CargoTomlParses(content)
    THEN /\ Return("ParseError")
         /\ UNCHANGED <<disk, updated_files, events>>
    ELSE LET cargo == from_str(content) IN
         IF IsSome(cargo.package) /\ ~skip_crate(args, Unwrap(cargo.package).name)
         THEN /\ disk' = [disk EXCEPT ![FileOf(cargo_path)] =
                    Some(to_string(create_updated_cargo_toml(cargo, args.version)))]
              /\ updated_files' = Append(updated_files, cargo_path)
              /\ events' = Append(events, Event("write", cargo_path))
              /\ Goto(next)
         ELSE /\ Goto(next)
              /\ updated_files' = IF IsSome(cargo.package)
                                  THEN Append(updated_files, cargo_path)
                                  ELSE updated_files
              /\ UNCHANGED <<disk, events>>

\* ReleaseTool::update_single_crate on one path, then on to next
update_single_crate(cargo_path, next) ==
    LET content == ReadFile(disk, cargo_path) IN
    IF ~CargoTomlParses(content)
    THEN /\ Return("ParseError")
         /\ UNCHANGED <<disk, updated_files, events>>
    ELSE LET cargo == from_str(content) IN
         IF IsSome(cargo.package) /\ ~skip_crate(args, Unwrap(cargo.package).name)
         THEN /\ disk' = [disk EXCEPT ![FileOf(cargo_path)] =
                    Some(to_string(create_updated_cargo_toml(cargo, args.version)))]
              /\ updated_files' = Append(updated_files, cargo_path)
              /\ events' = Append(events, Event("write", cargo_path))
              /\ Goto(next)
         ELSE /\ Goto(next)
              /\ UNCHANGED <<disk, updated_files, events>>

\* a plausible slip: the candidates are tried in the other order
FirstTauri_src_first ==
    IF Exists(disk, TauriPaths[2]) THEN 2
    ELSE IF Exists(disk, TauriPaths[1]) THEN 1 ELSE 0

\* update_tauri_config: the first candidate that exists, 0 when none does
FirstTauri ==
    IF Exists(disk, TauriPaths[1]) THEN 1
    ELSE IF Exists(disk, TauriPaths[2]) THEN 2 ELSE 0

\* the remotes configured in the repository, known once `git remote` has
\* listed them: the tool does not change them and assumes that nothing else
\* does during its run, so both listings print the same lines
Remotes == Unwrap(remotes)

-----------------------------------------------------------------------------
(* The steps of ReleaseTool::run *)

\* run, lines 110-113
run_validate ==
    /\ pc = "validate"
    /\ IF ~args.force /\ ~validate_version_format(args.version)
       THEN Return("InvalidVersionFormat")
       ELSE Goto("check_git_repo")
    /\ UNCHANGED <<args, disk, disk0, updated_files, events, cargo_toml_files,
                   remotes, idx, last_status, push_failed>>

check_git_repo ==
    /\ pc = "check_git_repo"
    /\ \E st \in Statuses :
        /\ events' = Append(events, Event("rev-parse", st))
        /\ last_status' = st
        /\ CASE st = "io" -> Return("IoError")
             [] st = "fail" -> Return("NotARepository")
             [] OTHER -> Goto("is_working_tree_clean")
    /\ UNCHANGED <<args, disk, disk0, updated_files, cargo_toml_files, remotes,
                   idx, push_failed>>

\* a plausible slip: the answer of the status query is not looked at
is_working_tree_clean_unchecked ==
    /\ pc = "is_working_tree_clean"
    /\ \E out \in {"empty", "nonempty", "io"} :
        /\ events' = Append(events, Event("status", out))
        /\ last_status' = IF out = "io" THEN "io" ELSE "ok"
        /\ IF out = "io" THEN Return("IoError") ELSE Goto("update_versions")
    /\ UNCHANGED <<args, disk, disk0, updated_files, cargo_toml_files, remotes,
                   idx, push_failed>>

\* is_working_tree_clean and run, lines 119-121: only stdout is looked at
is_working_tree_clean ==
    /\ pc = "is_working_tree_clean"
    /\ \E out \in {"empty", "nonempty", "io"} :
        /\ events' = Append(events, Event("status", out))
        /\ last_status' = IF out = "io" THEN "io" ELSE "ok"
        /\ CASE out = "io" -> Return("IoError")
             [] out = "nonempty" -> Return("DirtyWorkingTree")
             [] OTHER -> Goto("update_versions")
    /\ UNCHANGED <<args, disk, disk0, updated_files, cargo_toml_files, remotes,
                   idx, push_failed>>

\* a plausible slip: a missing root manifest is passed over
update_versions_missing_root_ok ==
    /\ pc = "update_versions"
    /\ IF ~Exists(disk, RootPath) THEN Goto("update_tauri_config")
       ELSE IF ~CargoTomlParses(ReadFile(disk, RootPath)) THEN Return("ParseError")
       ELSE IF IsSome(from_str(ReadFile(disk, RootPath)).workspace)
            THEN Goto("update_root_workspace_version")
            ELSE Goto("update_single_crate")
    /\ UNCHANGED <<args, disk, disk0, updated_files, events, cargo_toml_files,
                   remotes, idx, last_status, push_failed>>

\* a plausible slip: the workspace section is not looked at
update_versions_always_single ==
    /\ pc = "update_versions"
    /\ IF ~Exists(disk, RootPath) THEN Return("NoManifestFound")
       ELSE IF ~CargoTomlParses(ReadFile(disk, RootPath)) THEN Return("ParseError")
       ELSE Goto("update_single_crate")
    /\ UNCHANGED <<args, disk, disk0, updated_files, events, cargo_toml_files,
                   remotes, idx, last_status, push_failed>>

\* update_versions, lines 183-197: the root manifest decides the mode
update_versions ==
    /\ pc = "update_versions"
    /\ IF ~Exists(disk, RootPath) THEN Return("NoManifestFound")
       ELSE IF ~CargoTomlParses(ReadFile(disk, RootPath)) THEN Return("ParseError")
       ELSE IF IsSome(from_str(ReadFile(disk, RootPath)).workspace)
            THEN Goto("update_root_workspace_version")
            ELSE Goto("update_single_crate")
    /\ UNCHANGED <<args, disk, disk0, updated_files, events, cargo_toml_files,
                   remotes, idx, last_status, push_failed>>

\* update_versions, line 193: single-package mode
update_root_crate ==
    /\ pc = "update_single_crate"
    /\ update_single_crate(RootPath, "update_tauri_config")
    /\ UNCHANGED <<args, disk0, cargo_toml_files, remotes, idx, last_status,
                   push_failed>>

\* a plausible slip: the shared version is left alone when an only-list is
\* given
update_root_workspace_version_filtered ==
    /\ pc = "update_root_workspace_version"
    /\ LET content == ReadFile(disk, RootPath) IN
       IF ~CargoTomlParses(content)
       THEN /\ Return("ParseError")
            /\ UNCHANGED <<disk, updated_files, events>>
       ELSE LET cargo == from_str(content) IN
            IF /\ args.only = {}
               /\ IsSome(cargo.workspace)
               /\ IsSome(Unwrap(cargo.workspace).package)
               /\ IsSome(Unwrap(Unwrap(cargo.workspace).package).version)
            THEN LET ws == Unwrap(cargo.workspace)
                     wp == Unwrap(ws.package)
                     new == [cargo EXCEPT !.workspace =
                               Some([ws EXCEPT !.package =
                                   Some([wp EXCEPT !.version = Some(args.version)])])]
                 IN /\ disk' = [disk EXCEPT ![FileOf(RootPath)] = Some(to_string(new))]
                    /\ updated_files' = Append(updated_files, RootPath)
                    /\ events' = Append(events, Event("write", RootPath))
                    /\ Goto("find_all_cargo_toml")
            ELSE /\ Goto("find_all_cargo_toml")
                 /\ UNCHANGED <<disk, updated_files, events>>
    /\ UNCHANGED <<args, disk0, cargo_toml_files, remotes, idx, last_status,
                   push_failed>>

update_root_workspace_version ==
    /\ pc = "update_root_workspace_version"
    /\ LET content == ReadFile(disk, RootPath) IN
       IF ~CargoTomlParses(content)
       THEN /\ Return("ParseError")
            /\ UNCHANGED <<disk, updated_files, events>>
       ELSE LET cargo == from_str(content) IN
            IF /\ IsSome(cargo.workspace)
               /\ IsSome(Unwrap(cargo.workspace).package)
               /\ IsSome(Unwrap(Unwrap(cargo.workspace).package).version)
            THEN LET ws == Unwrap(cargo.workspace)
                     wp == Unwrap(ws.package)
                     new == [cargo EXCEPT !.workspace =
                               Some([ws EXCEPT !.package =
                                   Some([wp EXCEPT !.version = Some(args.version)])])]
                 IN /\ disk' = [disk EXCEPT ![FileOf(RootPath)] = Some(to_string(new))]
                    /\ updated_files' = Append(updated_files, RootPath)
                    /\ events' = Append(events, Event("write", RootPath))
                    /\ Goto("find_all_cargo_toml")
            ELSE /\ Goto("find_all_cargo_toml")
                 /\ UNCHANGED <<disk, updated_files, events>>
    /\ UNCHANGED <<args, disk0, cargo_toml_files, remotes, idx, last_status,
                   push_failed>>

\* the directory walk lists the manifests in no particular order
find_all_cargo_toml ==
    /\ pc = "find_all_cargo_toml"
    /\ \E order \in Orders({p \in WalkPaths : Exists(disk, p)}) :
        /\ cargo_toml_files' = order
        /\ Goto(IF order = <<>> THEN "update_tauri_config"
                ELSE "update_workspace_versions")
    /\ UNCHANGED <<args, disk, disk0, updated_files, events, remotes, idx,
                   last_status, push_failed>>

\* update_workspace_versions, lines 216-218: one iteration of the loop
update_workspace_versions ==
    /\ pc = "update_workspace_versions"
    /\ cargo_toml_files # <<>>
    /\ update_single_crate(Head(cargo_toml_files),
            IF Tail(cargo_toml_files) = <<>> THEN "update_tauri_config"
            ELSE "update_workspace_versions")
    /\ cargo_toml_files' = Tail(cargo_toml_files)
    /\ UNCHANGED <<args, disk0, remotes, idx, last_status, push_failed>>

\* update_tauri_config, then update_versions, lines 202-205
update_tauri_config ==
    /\ pc = "update_tauri_config"
    /\ LET i == FirstTauri IN
       IF i = 0
       THEN /\ events' = Append(events, Event("print_count", Len(updated_files)))
            /\ Goto("dry_run")
            /\ UNCHANGED <<disk, updated_files>>
       ELSE LET path == TauriPaths[i]
                content == ReadFile(disk, path) IN
            IF ~TauriConfigParses(content)
            THEN /\ Return("ParseError")
                 /\ UNCHANGED <<disk, updated_files, events>>
            ELSE LET tauri_config == [from_json(content) EXCEPT !.version = args.version]
                 IN /\ disk' = [disk EXCEPT ![FileOf(path)] = Some(to_json(tauri_config))]
                    /\ updated_files' = Append(updated_files, path)
                    /\ events' = events \o <<Event("write", path),
                                   Event("print_count", Len(updated_files) + 1)>>
                    /\ Goto("dry_run")
    /\ UNCHANGED <<args, disk0, cargo_toml_files, remotes, idx, last_status,
                   push_failed>>

\* a plausible slip: the tag is looked up before the changes are committed
run_dry_run_tag_check_first ==
    /\ pc = "dry_run"
    /\ IF args.dry_run
       THEN /\ events' = Append(events, Event("print_updated_files", updated_files))
            /\ Return("Ok")
       ELSE /\ Goto("tag_list")
            /\ UNCHANGED events
    /\ UNCHANGED <<args, disk, disk0, updated_files, cargo_toml_files, remotes,
                   idx, last_status, push_failed>>

\* a plausible slip: the dry-run flag is not consulted
run_dry_run_ignored ==
    /\ pc = "dry_run"
    /\ Goto("git_add")
    /\ UNCHANGED <<args, disk, disk0, updated_files, events, cargo_toml_files,
                   remotes, idx, last_status, push_failed>>

\* run, lines 126-132
run_dry_run ==
    /\ pc = "dry_run"
    /\ IF args.dry_run
       THEN /\ events' = Append(events, Event("print_updated_files", updated_files))
            /\ Return("Ok")
       ELSE /\ Goto("git_add")
            /\ UNCHANGED events
    /\ UNCHANGED <<args, disk, disk0, updated_files, cargo_toml_files, remotes,
                   idx, last_status, push_failed>>

\* commit_changes, line 349
git_add ==
    /\ pc = "git_add"
    /\ \E st \in Statuses : Spawn("add", "-A", st, "git_commit")
    /\ UNCHANGED <<args, disk, disk0, updated_files, cargo_toml_files, remotes,
                   idx, push_failed>>

\* commit_changes, lines 352-362
git_commit ==
    /\ pc = "git_commit"
    /\ \E st \in Statuses : Spawn("commit", args.version, st, "tag_list")
    /\ UNCHANGED <<args, disk, disk0, updated_files, cargo_toml_files, remotes,
                   idx, push_failed>>

\* a plausible slip: with re_publish the old tag is deleted without looking
\* at the answer of the query
handle_tag_list_delete_on_republish ==
    /\ pc = "tag_list"
    /\ \E out \in {"exists", "absent", "io"} :
        /\ events' = Append(events, Event("tag_list", out))
        /\ last_status' = IF out = "io" THEN "io" ELSE "ok"
        /\ CASE out = "io" -> Return("IoError")
             [] out # "io" /\ args.re_publish -> Goto("tag_delete")
             [] out = "exists" /\ ~args.re_publish -> Return("TagAlreadyExists")
             [] OTHER -> Goto("tag_create")
    /\ UNCHANGED <<args, disk, disk0, updated_files, cargo_toml_files, remotes,
                   idx, push_failed>>

\* a plausible slip: an existing tag is replaced whatever re_publish says
handle_tag_list_always_replace ==
    /\ pc = "tag_list"
    /\ \E out \in {"exists", "absent", "io"} :
        /\ events' = Append(events, Event("tag_list", out))
        /\ last_status' = IF out = "io" THEN "io" ELSE "ok"
        /\ CASE out = "io" -> Return("IoError")
             [] out = "exists" -> Goto("tag_delete")
             [] OTHER -> Goto("tag_create")
    /\ UNCHANGED <<args, disk, disk0, updated_files, cargo_toml_files, remotes,
                   idx, push_failed>>

\* handle_tag, lines 366-395: the tag exists when the listing prints something
handle_tag_list ==
    /\ pc = "tag_list"
    /\ \E out \in {"exists", "absent", "io"} :
        /\ events' = Append(events, Event("tag_list", out))
        /\ last_status' = IF out = "io" THEN "io" ELSE "ok"
        /\ CASE out = "io" -> Return("IoError")
             [] out = "exists" /\ args.re_publish -> Goto("tag_delete")
             [] out = "exists" /\ ~args.re_publish -> Return("TagAlreadyExists")
             [] OTHER -> Goto("tag_create")
    /\ UNCHANGED <<args, disk, disk0, updated_files, cargo_toml_files, remotes,
                   idx, push_failed>>

\* handle_tag, lines 381-385
handle_tag_delete ==
    /\ pc = "tag_delete"
    /\ \E st \in Statuses : Spawn("tag_delete", tag_name(args), st, "delete_remote_tags")
    /\ UNCHANGED <<args, disk, disk0, updated_files, cargo_toml_files, remotes,
                   idx, push_failed>>

\* delete_remote_tags, lines 411-413
delete_remote_tags_list ==
    /\ pc = "delete_remote_tags"
    /\ \/ \E r \in RemoteLists :
            /\ remotes \in {None, Some(r)}
            /\ remotes' = Some(r)
            /\ Spawn("remote", r, "ok",
                     IF r = <<>> THEN "tag_create" ELSE "delete_remote_tag")
       \/ /\ Spawn("remote", <<>>, "io", "done")
          /\ UNCHANGED remotes
    /\ idx' = 0
    /\ UNCHANGED <<args, disk, disk0, updated_files, cargo_toml_files, push_failed>>

\* a plausible slip: the deletion is spawned with `?` like the other commands
delete_remote_tag_propagating ==
    /\ pc = "delete_remote_tag"
    /\ idx < Len(Remotes)
    /\ \E st \in Statuses :
        Spawn("push_delete", <<Remotes[idx + 1], tag_name(args)>>, st,
              IF idx + 1 = Len(Remotes) THEN "tag_create" ELSE "delete_remote_tag")
    /\ idx' = idx + 1
    /\ UNCHANGED <<args, disk, disk0, updated_files, cargo_toml_files, remotes,
                   push_failed>>

\* delete_remote_tags, lines 415-423: the result of the push is dropped
delete_remote_tag ==
    /\ pc = "delete_remote_tag"
    /\ idx < Len(Remotes)
    /\ \E st \in Statuses :
        /\ events' = Append(events,
                Event("push_delete", <<Remotes[idx + 1], tag_name(args)>>))
        /\ last_status' = st
    /\ idx' = idx + 1
    /\ Goto(IF idx + 1 = Len(Remotes) THEN "tag_create" ELSE "delete_remote_tag")
    /\ UNCHANGED <<args, disk, disk0, updated_files, cargo_toml_files, remotes,
                   push_failed>>

\* handle_tag, lines 398-407
handle_tag_create ==
    /\ pc = "tag_create"
    /\ \E st \in Statuses : Spawn("tag_create", tag_name(args), st, "push_to_remotes")
    /\ UNCHANGED <<args, disk, disk0, updated_files, cargo_toml_files, remotes,
                   idx, push_failed>>

\* push_to_remotes, lines 431-433
push_to_remotes_list ==
    /\ pc = "push_to_remotes"
    /\ \/ \E r \in RemoteLists :
            /\ remotes \in {None, Some(r)}
            /\ remotes' = Some(r)
            /\ Spawn("remote", r, "ok",
                     IF r = <<>> THEN "success" ELSE "push_head")
       \/ /\ Spawn("remote", <<>>, "io", "done")
          /\ UNCHANGED remotes
    /\ idx' = 0
    /\ UNCHANGED <<args, disk, disk0, updated_files, cargo_toml_files, push_failed>>

\* a plausible slip: a push that exits non-zero ends the loop with an error
push_head_stop_on_failure ==
    /\ pc = "push_head"
    /\ idx < Len(Remotes)
    /\ \E st \in Statuses :
        /\ events' = Append(events, Event("push_head", Remotes[idx + 1]))
        /\ last_status' = st
        /\ CASE st = "ok" -> Goto("push_tags")
             [] st = "fail" -> Return("PushFailed")
             [] OTHER -> Return("IoError")
        /\ push_failed' = (push_failed \/ st = "fail")
    /\ UNCHANGED <<args, disk, disk0, updated_files, cargo_toml_files, remotes, idx>>

\* push_to_remotes, lines 439-443
push_head ==
    /\ pc = "push_head"
    /\ idx < Len(Remotes)
    /\ \E st \in Statuses :
        /\ Spawn("push_head", Remotes[idx + 1], st, "push_tags")
        /\ push_failed' = (push_failed \/ st = "fail")
    /\ UNCHANGED <<args, disk, disk0, updated_files, cargo_toml_files, remotes, idx>>

\* a plausible slip: the tags go to the remote listed first in every
\* iteration
push_tags_to_first_remote ==
    /\ pc = "push_tags"
    /\ idx < Len(Remotes)
    /\ \E st \in Statuses :
        /\ Spawn("push_tags", Remotes[1], st,
                 IF idx + 1 = Len(Remotes) THEN "success" ELSE "push_head")
        /\ push_failed' = (push_failed \/ st = "fail")
    /\ idx' = idx + 1
    /\ UNCHANGED <<args, disk, disk0, updated_files, cargo_toml_files, remotes>>

\* push_to_remotes, lines 446-450
push_tags ==
    /\ pc = "push_tags"
    /\ idx < Len(Remotes)
    /\ \E st \in Statuses :
        /\ Spawn("push_tags", Remotes[idx + 1], st,
                 IF idx + 1 = Len(Remotes) THEN "success" ELSE "push_head")
        /\ push_failed' = (push_failed \/ st = "fail")
    /\ idx' = idx + 1
    /\ UNCHANGED <<args, disk, disk0, updated_files, cargo_toml_files, remotes>>

\* run, lines 143-144
run_success ==
    /\ pc = "success"
    /\ events' = Append(events, Event("print_success", args.version))
    /\ Return("Ok")
    /\ UNCHANGED <<args, disk, disk0, updated_files, cargo_toml_files, remotes,
                   idx, last_status, push_failed>>

-----------------------------------------------------------------------------
(* Specifications *)

\* ReleaseTool::new on the arguments a, in a directory with the files d
InitWith(a, d) ==
    /\ args = a
    /\ disk = d
    /\ disk0 = d
    /\ pc = "validate"
    /\ result = "running"
    /\ exit_code = -1
    /\ updated_files = <<>>
    /\ events = <<>>
    /\ cargo_toml_files = <<>>
    /\ remotes = None
    /\ idx = 0
    /\ last_status = "none"
    /\ push_failed = FALSE

Init ==
    \E a \in Clis({ValidVersion, InvalidVersion}), d \in Disks : InitWith(a, d)

Next ==
    \/ run_validate
    \/ check_git_repo
    \/ is_working_tree_clean
    \/ update_versions
    \/ update_root_crate
    \/ update_root_workspace_version
    \/ find_all_cargo_toml
    \/ update_workspace_versions
    \/ update_tauri_config
    \/ run_dry_run
    \/ git_add
    \/ git_commit
    \/ handle_tag_list
    \/ handle_tag_delete
    \/ delete_remote_tags_list
    \/ delete_remote_tag
    \/ handle_tag_create
    \/ push_to_remotes_list
    \/ push_head
    \/ push_tags
    \/ run_success

Spec == Init /\ [][Next]_vars

\* The validation alone, on every version string up to MaxVerLen characters
InitValidate ==
    \E k \in 0..MaxVerLen : \E v \in Strings(k), f \in BOOLEAN :
        InitWith([version |-> v, re_publish |-> FALSE, force |-> f,
                  dry_run |-> TRUE, exclude |-> {}, only |-> {},
                  tag_prefix |-> <<"v">>],
                 [p \in Files |-> IF p = "Cargo.toml" THEN Some(PkgDoc("a")) ELSE None])

NextValidate == run_validate

SpecValidate == InitValidate /\ [][NextValidate]_vars

-----------------------------------------------------------------------------
(* Vocabulary of the properties *)

\* the commands that change the repository or a remote
Mutations == {"add", "commit", "tag_delete", "tag_create", "push_delete",
              "push_head", "push_tags"}

\* the first position from i on of an event of command c, 0 when none
RECURSIVE Find(_, _)
Find(c, i) ==
    IF i > Len(events) THEN 0
    ELSE IF events[i].cmd = c THEN i ELSE Find(c, i + 1)

\* position of the first event of command c, 0 when there is none
FirstOf(c) == Find(c, 1)

Invoked(c) == \E i \in 1..Len(events) : events[i].cmd = c
MutationInvoked == \E i \in 1..Len(events) : events[i].cmd \in Mutations
FileWritten == Invoked("write")

AllIn(s, i, j, cls) == \A k \in i..j : s[k] \in cls

\* the language of \d+\.\d+\.\d+(-cls+)?(\+cls+)? stated by its parts: s is
\* digits, ".", digits, ".", digits ending at c, an optional "-" part
\* ending at d and an optional "+" part ending at the end of s
InPattern(s, cls) ==
    \E a \in 1..Len(s) :
        /\ AllIn(s, 1, a, Digits)
        /\ a + 1 <= Len(s) /\ s[a + 1] = "."
        /\ \E b \in (a + 2)..Len(s) :
            /\ AllIn(s, a + 2, b, Digits)
            /\ b + 1 <= Len(s) /\ s[b + 1] = "."
            /\ \E c \in (b + 2)..Len(s) :
                /\ AllIn(s, b + 2, c, Digits)
                /\ \E d \in c..Len(s) :
                    /\ \/ d = c
                       \/ d >= c + 2 /\ s[c + 1] = "-" /\ AllIn(s, c + 2, d, cls)
                    /\ \/ d = Len(s)
                       \/ Len(s) >= d + 2 /\ s[d + 1] = "+"
                          /\ AllIn(s, d + 2, Len(s), cls)

Validated == pc # "validate"
Rejected == result = "InvalidVersionFormat"

-----------------------------------------------------------------------------
(* C6 *)

\* C6, as stated: without the force flag the validation accepts exactly
\* the strings of \d+\.\d+\.\d+(-[\w.]+)?(\+[\w.]+)? (\w with the
\* underscore), and with the force flag it accepts every string.
C6_AsStated ==
    Validated =>
        (~Rejected <=> (args.force \/ InPattern(args.version, WordDotClass)))

\* C6, amended: without the force flag the validation accepts exactly the
\* strings of \d+\.\d+\.\d+(-[a-zA-Z0-9.]+)?(\+[a-zA-Z0-9.]+)? (no
\* underscore in a suffix), and with the force flag every string passes.
C6_ValidationAcceptsAlnumDotSemver ==
    Validated =>
        (~Rejected <=> (args.force \/ InPattern(args.version, SuffixClass)))

\* the unforced version 1.1.1-_ has been rejected
C6_Witness ==
    /\ Validated
    /\ ~args.force
    /\ args.version = <<"1", ".", "1", ".", "1", "-", "_">>
    /\ Rejected

-----------------------------------------------------------------------------
(* Vocabulary of the run *)

\* the last command invoked (or file written, or line printed)
LastCmd == IF events = <<>> THEN "none" ELSE Last(events).cmd

IsEvent(i, c, a) == events[i].cmd = c /\ events[i].arg = a

\* version validation, or the force flag
VersionAccepted == args.force \/ InPattern(args.version, SuffixClass)

\* the three prechecks have passed, in the order of run()
PrechecksPassed ==
    /\ VersionAccepted
    /\ Len(events) >= 2
    /\ IsEvent(1, "rev-parse", "ok")
    /\ IsEvent(2, "status", "empty")

\* update_versions has returned Ok: its summary line has been printed
VersionsUpdated == Invoked("print_count")

\* the tag query has answered that the tag exists
TagFound == \E i \in 1..Len(events) : IsEvent(i, "tag_list", "exists")

PushCmds == {"push_head", "push_tags"}

-----------------------------------------------------------------------------
(* C1 *)

\* C1: in a run with the dry-run flag no git add, commit, tag creation or
\* deletion, push or push --delete is ever invoked, and once the prechecks
\* and update_versions have succeeded the run ends with Ok (exit code 0)
\* right after printing the updated-files list, which is the last thing
\* it does after the summary of update_versions.
C1_DryRunInvokesNoMutation ==
    args.dry_run =>
        /\ ~MutationInvoked
        /\ VersionsUpdated => pc \in {"dry_run", "done"}
        /\ (VersionsUpdated /\ pc = "done") =>
            /\ result = "Ok" /\ exit_code = 0
            /\ LastCmd = "print_updated_files"
            /\ Last(events).arg = updated_files
            /\ events[Len(events) - 1].cmd = "print_count"

\* a dry run that rewrote files has ended with Ok
C1_Witness ==
    /\ args.dry_run
    /\ pc = "done" /\ result = "Ok"
    /\ Len(updated_files) >= 2
    /\ disk # disk0

-----------------------------------------------------------------------------
(* C2 *)

\* C2: in a run without dry_run and without re_publish, once the tag query
\* has answered that the tag exists the run has ended with
\* TagAlreadyExists (exit code 1), the query is the last command it
\* invoked, and no tag deletion (local or remote), tag creation or push
\* has been invoked.
C2_ExistingTagWithoutRepublishFails ==
    (~args.dry_run /\ ~args.re_publish /\ TagFound) =>
        /\ pc = "done"
        /\ result = "TagAlreadyExists" /\ exit_code = 1
        /\ LastCmd = "tag_list"
        /\ \A c \in {"tag_delete", "push_delete", "tag_create", "push_head",
                     "push_tags"} : ~Invoked(c)

\* the tag was found in a run without re_publish
C2_Witness ==
    /\ ~args.dry_run /\ ~args.re_publish
    /\ TagFound
    /\ result = "TagAlreadyExists"

-----------------------------------------------------------------------------
(* C3 *)

\* C3: in a run without dry_run and with re_publish in which the tag query
\* at position q answered that the tag exists, the events after q are
\* always a prefix of: the deletion of the local tag prefix+version, the
\* remote listing, one push --delete of that tag for every listed remote
\* in the listed order, the creation of the tag with the same name; and
\* after a push --delete, however it ended, the run is still running and
\* goes on to the next remote or to the creation of the tag.
C3_RepublishDeletesThenCreates ==
    (~args.dry_run /\ args.re_publish /\ TagFound) =>
        LET q == FirstOf("tag_list")
            n == Len(events)
            rs == IF n >= q + 2 THEN events[q + 2].arg ELSE <<>>
        IN  /\ n >= q + 1 => IsEvent(q + 1, "tag_delete", tag_name(args))
            /\ n >= q + 2 => events[q + 2].cmd = "remote"
            /\ \A k \in 1..Len(rs) :
                n >= q + 2 + k =>
                    IsEvent(q + 2 + k, "push_delete", <<rs[k], tag_name(args)>>)
            /\ n >= q + 3 + Len(rs) =>
                    IsEvent(q + 3 + Len(rs), "tag_create", tag_name(args))
            /\ (n >= q + 3 /\ n <= q + 2 + Len(rs)) =>
                    /\ result = "running"
                    /\ pc = IF n = q + 2 + Len(rs) THEN "tag_create"
                            ELSE "delete_remote_tag"

\* the deletion on the first of two remotes could not even be started, and
\* the run goes on to the second remote
C3_Witness ==
    /\ ~args.dry_run /\ args.re_publish /\ TagFound
    /\ LastCmd = "push_delete"
    /\ last_status = "io"
    /\ Len(Remotes) = 2 /\ idx = 1
    /\ pc = "delete_remote_tag"

-----------------------------------------------------------------------------
(* C4 *)

\* C4: when a push of HEAD or of the tags has ended with a non-zero status,
\* the run does not end with Ok: run() returns an error and the process
\* exits non-zero.
C4_FailedPushFailsTheRun ==
    (pc = "done" /\ push_failed) => (result # "Ok" /\ exit_code # 0)

-----------------------------------------------------------------------------
(* C5 *)

\* the remote listing of push_to_remotes: the listing made after the tag
\* was created; 0 when it has not been made
PushListing ==
    LET t == FirstOf("tag_create") IN
    IF t # 0 THEN Find("remote", t + 1) ELSE 0

\* the pushes to the first k remotes of the listing at q have all been made,
\* HEAD before tags, remote after remote
PushesMade(q, k) ==
    /\ Len(events) >= q + 2 * k
    /\ \A j \in 1..k :
        /\ IsEvent(q + 2 * j - 1, "push_head", events[q].arg[j])
        /\ IsEvent(q + 2 * j, "push_tags", events[q].arg[j])

\* C5, as stated: whatever the outcome of a push, a run that has listed the
\* remotes for pushing does not end before HEAD and the tags have been
\* pushed to every listed remote.
C5_AsStated ==
    (pc = "done" /\ ~args.dry_run) =>
        LET q == PushListing IN
        q # 0 => PushesMade(q, Len(events[q].arg))

\* C5, amended: a push that ends with a non-zero exit status does not stop
\* the loop (the run is still running after it), and a run that has listed
\* the remotes for pushing ends either after HEAD and the tags have been
\* pushed to every listed remote, in order, or with the I/O error of a
\* command that could not be started.
C5_FailedPushDoesNotStopTheLoop ==
    /\ (LastCmd \in PushCmds /\ last_status = "fail") => result = "running"
    /\ (pc \in {"push_head", "push_tags", "success", "done"} /\ ~args.dry_run) =>
        LET q == PushListing
            rs == events[q].arg
        IN  q # 0 =>
            /\ pc = "done" =>
                \/ PushesMade(q, Len(rs))
                \/ /\ result = "IoError" /\ last_status = "io"
                   /\ LastCmd \in PushCmds \cup {"remote"}
            /\ \A i \in (q + 1)..Len(events) :
                LET k == (i - q + 1) \div 2 IN
                IF events[i].cmd = "print_success" THEN i = Len(events)
                ELSE /\ k <= Len(rs)
                     /\ IsEvent(i, IF (i - q) % 2 = 1 THEN "push_head"
                                    ELSE "push_tags", rs[k])

\* a push to the first remote has failed and HEAD is being pushed to the
\* second one
C5_Witness ==
    /\ pc = "push_tags"
    /\ push_failed
    /\ Len(Remotes) = 2
    /\ LastCmd = "push_head"
    /\ Last(events).arg = Remotes[2]
    /\ last_status = "ok"

-----------------------------------------------------------------------------
(* C7 *)

\* the path the single-package update procedure is about to process
Processing(p) ==
    \/ pc = "update_single_crate" /\ p = RootPath
    \/ /\ pc = "update_workspace_versions"
       /\ cargo_toml_files # <<>>
       /\ p = Head(cargo_toml_files)

\* the manifest at p parses and has a package section
HasPackage(p) ==
    /\ CargoTomlParses(ReadFile(disk, p))
    /\ "package" \in DOMAIN ReadFile(disk, p)

\* C7: when the single-package update procedure processes a manifest with
\* a package section, then: if (exclude is empty or lacks the name) and
\* (only is empty or has the name), the file's package.version becomes the
\* requested version and its path is appended to the updated-files log;
\* otherwise the disk and the log are left as they are and no write happens.
C7_RewrittenIffNotFilteredOut ==
    [][\A p \in WalkPaths \cup {RootPath} :
        (Processing(p) /\ HasPackage(p)) =>
            LET name == ReadFile(disk, p).package.name
                wanted == /\ (args.exclude = {} \/ name \notin args.exclude)
                          /\ (args.only = {} \/ name \in args.only)
            IN  IF wanted
                THEN /\ ReadFile(disk', p).package.version = args.version
                     /\ updated_files' = Append(updated_files, p)
                     /\ events' = Append(events, Event("write", p))
                ELSE /\ disk' = disk
                     /\ updated_files' = updated_files
                     /\ events' = events
      ]_vars

\* a workspace with members a and b and exclude = [b]: a is rewritten and
\* b is as it was
C7_Witness ==
    /\ args.exclude = {"b"} /\ args.only = {}
    /\ pc = "update_tauri_config"
    /\ IsSome(disk0["a/Cargo.toml"]) /\ IsSome(disk0["b/Cargo.toml"])
    /\ "workspace" \in DOMAIN Unwrap(disk0["Cargo.toml"])
    /\ Unwrap(disk["a/Cargo.toml"]).package.version = args.version
    /\ disk["b/Cargo.toml"] = disk0["b/Cargo.toml"]
    /\ \A i \in 1..Len(updated_files) : updated_files[i] # "./b/Cargo.toml"

-----------------------------------------------------------------------------
(* C8 *)

\* a manifest document with its package.version taken out
ExceptPackageVersion(t) ==
    [t EXCEPT !.package = Without(t.package, {"version"})]

\* C8: a write of the single-package update procedure changes nothing but
\* package.version: the written document without it equals the document
\* read without it (workspace section with its shared version, package
\* name, unrecognized keys with their nested tables and arrays), and no
\* other file changes.
C8_OnlyPackageVersionChanges ==
    [][\A p \in WalkPaths \cup {RootPath} :
        (Processing(p) /\ events' = Append(events, Event("write", p))) =>
            /\ ExceptPackageVersion(ReadFile(disk', p))
                    = ExceptPackageVersion(ReadFile(disk, p))
            /\ \A f \in Files \ {FileOf(p)} : disk'[f] = disk[f]
      ]_vars

\* the root manifest of a workspace was written twice, for the shared
\* version and for its own package, and the shared version is still there
C8_Witness ==
    /\ LET n == Len(updated_files) IN
       /\ n >= 2
       /\ updated_files[1] = "Cargo.toml"
       /\ \E i \in 2..n : updated_files[i] = "./Cargo.toml"
    /\ Unwrap(disk["Cargo.toml"]).workspace.package.version = args.version
    /\ Unwrap(disk["Cargo.toml"]).package.version = args.version
    /\ Unwrap(disk["Cargo.toml"]).dependencies
            = Unwrap(disk0["Cargo.toml"]).dependencies

-----------------------------------------------------------------------------
(* C9 *)

\* C9: a file is written or changed, or a mutation command invoked, only
\* after the version was accepted (or forced), then the repository check
\* succeeded, then the status query printed nothing; the repository check
\* is made only with an accepted version and the status query only after
\* a successful repository check; a status query that prints something
\* ends the run with DirtyWorkingTree and an unchanged disk; a failed
\* repository check ends it with NotARepository with no status query.
C9_NothingBeforePrechecks ==
    /\ (FileWritten \/ MutationInvoked \/ disk # disk0 \/ updated_files # <<>>)
            => PrechecksPassed
    /\ events # <<>> => (VersionAccepted /\ events[1].cmd = "rev-parse")
    /\ Len(events) >= 2 => (events[1].arg = "ok" /\ events[2].cmd = "status")
    /\ Len(events) >= 3 => events[2].arg = "empty"
    /\ (Len(events) >= 2 /\ events[2].arg = "nonempty") =>
            /\ pc = "done" /\ result = "DirtyWorkingTree" /\ exit_code = 1
            /\ disk = disk0
    /\ (events # <<>> /\ events[1].arg = "fail") =>
            /\ pc = "done" /\ result = "NotARepository" /\ exit_code = 1
            /\ disk = disk0

\* a run on a dirty working tree with manifests it could have rewritten
C9_Witness ==
    /\ result = "DirtyWorkingTree"
    /\ Len(events) = 2
    /\ IsSome(disk["Cargo.toml"]) /\ IsSome(disk["tauri.conf.json"])

-----------------------------------------------------------------------------
(* C10 *)

\* C10: when there is no root manifest, a run whose prechecks passed ends
\* in update_versions with NoManifestFound (exit code 1), and throughout
\* the run the disk is unchanged (the application config too), the
\* updated-files log is empty and no mutation command is invoked.
C10_NoManifestFoundChangesNothing ==
    ~Exists(disk0, RootPath) =>
        /\ disk = disk0
        /\ updated_files = <<>>
        /\ ~FileWritten /\ ~MutationInvoked
        /\ pc \in {"validate", "check_git_repo", "is_working_tree_clean",
                   "update_versions", "done"}
        /\ (pc = "done" /\ PrechecksPassed) =>
                (result = "NoManifestFound" /\ exit_code = 1 /\ Len(events) = 2)

\* no root manifest, but an application config and a member manifest
C10_Witness ==
    /\ result = "NoManifestFound"
    /\ ~Exists(disk, RootPath)
    /\ Exists(disk, "tauri.conf.json")
    /\ Exists(disk, "./a/Cargo.toml")

-----------------------------------------------------------------------------
(* Vocabulary of the updated-files log *)

InLog(path) == \E i \in 1..Len(updated_files) : updated_files[i] = path

\* the file was rewritten: it is not as it was when the run started (every
\* version on disk differs from the requested one at the start)
Changed(f) == disk[f] # disk0[f]

IsTauriPath(path) == path = TauriPaths[1] \/ path = TauriPaths[2]

-----------------------------------------------------------------------------
(* C11 *)

\* C11: at most one application config is written in a run, and it is
\* recorded once.  When tauri.conf.json exists, src-tauri/tauri.conf.json
\* is never changed or recorded, and once update_versions has succeeded
\* tauri.conf.json carries the requested version and is the last path
\* recorded; src-tauri/tauri.conf.json is changed or recorded only when
\* tauri.conf.json does not exist; when neither exists the step changes no
\* file, records nothing and the run goes on without error to the
\* dry-run test.
C11_AtMostOneAppConfigWritten ==
    /\ [](LET t1 == TauriPaths[1]
              t2 == TauriPaths[2]
          IN  /\ ~(Changed(t1) /\ Changed(t2))
              /\ \A i, j \in 1..Len(updated_files) :
                    (IsTauriPath(updated_files[i]) /\ IsTauriPath(updated_files[j]))
                        => i = j
              /\ Exists(disk0, t1) =>
                    /\ ~Changed(t2) /\ ~InLog(t2)
                    /\ VersionsUpdated =>
                        /\ ReadFile(disk, t1).version = args.version
                        /\ Last(updated_files) = t1
              /\ (Changed(t2) \/ InLog(t2)) => ~Exists(disk0, t1)
              /\ (~Exists(disk0, t1) /\ ~Exists(disk0, t2)) =>
                    /\ ~InLog(t1) /\ ~InLog(t2)
                    /\ disk[t1] = None /\ disk[t2] = None)
    /\ [][(pc = "update_tauri_config"
            /\ ~Exists(disk, TauriPaths[1]) /\ ~Exists(disk, TauriPaths[2])) =>
                /\ pc' = "dry_run" /\ result' = "running"
                /\ disk' = disk /\ updated_files' = updated_files
         ]_vars

\* both candidates exist: the first one was rewritten, the second is as it
\* was
C11_Witness ==
    /\ VersionsUpdated
    /\ Exists(disk0, TauriPaths[1]) /\ Exists(disk0, TauriPaths[2])
    /\ ReadFile(disk, TauriPaths[1]).version = args.version
    /\ disk[TauriPaths[2]] = disk0[TauriPaths[2]]
    /\ Len(updated_files) >= 2

-----------------------------------------------------------------------------
(* C12 *)

\* C12: when git add, git commit or the creation of the tag has ended with
\* a non-zero status, the run has entered Failed: run() has returned an
\* error (exit code 1) and that command is the last one invoked, so that no
\* tag query, tag deletion, tag creation or push follows a failed commit
\* stage and no push follows a failed tag creation.
C12_StageFailureShortCircuits ==
    (LastCmd \in {"add", "commit", "tag_create"} /\ last_status = "fail") =>
        /\ pc = "done"
        /\ result \notin {"running", "Ok"}
        /\ exit_code = 1

-----------------------------------------------------------------------------
(* C13 *)

\* the stage of the run the event at position i belongs to; t is the
\* position of the tag creation (0 when the tag has not been created): a
\* remote listing before it belongs to the deletion of the old tag, one
\* after it to the pushing
Stage(i, t) ==
    LET c == events[i].cmd IN
    CASE c \in {"rev-parse", "status"} -> 0
      [] c \in {"write", "print_count"} -> 1
      [] c = "add" -> 2
      [] c = "commit" -> 3
      [] c = "tag_list" -> 4
      [] c \in {"tag_delete", "push_delete"} -> 5
      [] c = "remote" -> IF t # 0 /\ i > t THEN 7 ELSE 5
      [] c = "tag_create" -> 6
      [] c \in PushCmds -> 8
      [] OTHER -> 9

\* the stages an event of stage n can be directly followed by
StagesAfter(n) ==
    CASE n = 0 -> {0, 1}
      [] n = 1 -> {1, 2}
      [] n = 2 -> {3}
      [] n = 3 -> {4}
      [] n = 4 -> {5, 6}
      [] n = 5 -> {5, 6}
      [] n = 6 -> {7}
      [] n = 7 -> {8, 9}
      [] n = 8 -> {8, 9}
      [] OTHER -> {}

\* C13: in a run without dry_run the events are ordered by stage: the file
\* rewrites, then git add, then git commit, then the tag query, then (the
\* deletion of an old tag and) the tag creation, then the remote listing
\* and the pushes of HEAD and of the tags, each stage invoked once and none
\* passed over; and the k-th remote of that listing gets the push of HEAD
\* as the (2k-1)-th and the push of the tags as the 2k-th event after the
\* listing: HEAD before tags for a remote, and both before any push to the
\* next remote.
C13_PublishingEventsOrdered ==
    ~args.dry_run =>
        LET t == FirstOf("tag_create")
            q == IF t # 0 THEN Find("remote", t + 1) ELSE 0
        IN  /\ \A i \in 1..(Len(events) - 1) :
                    Stage(i + 1, t) \in StagesAfter(Stage(i, t))
            /\ q # 0 =>
                \A i \in (q + 1)..Len(events) :
                    events[i].cmd \in PushCmds =>
                        LET k == (i - q + 1) \div 2 IN
                        /\ k <= Len(events[q].arg)
                        /\ IsEvent(i, IF (i - q) % 2 = 1 THEN "push_head"
                                       ELSE "push_tags", events[q].arg[k])

\* a re-publishing run over two remotes has rewritten files, replaced the
\* tag and pushed to both remotes
C13_Witness ==
    /\ ~args.dry_run /\ args.re_publish
    /\ pc = "done" /\ result = "Ok"
    /\ TagFound
    /\ Len(updated_files) >= 2
    /\ Len(Remotes) = 2
    /\ LastCmd = "print_success"
    /\ IsEvent(Len(events) - 1, "push_tags", Remotes[2])

-----------------------------------------------------------------------------
(* C14 *)

\* the paths of the file writes from position i on, in the order of the
\* writes
RECURSIVE WritesFrom(_)
WritesFrom(i) ==
    IF i > Len(events) THEN <<>>
    ELSE IF events[i].cmd = "write"
         THEN <<events[i].arg>> \o WritesFrom(i + 1)
         ELSE WritesFrom(i + 1)

\* C14: the updated-files log always equals the sequence of the paths of
\* the file writes made so far, in write order; and in every step the log
\* grows if and only if a file is written in that step, which is the case
\* if and only if the disk changes: then the log grows by one path, the
\* file of that path is the one file that changes, and the write of that
\* path is the write made.  A step that skips a manifest or finds no
\* application config leaves the log as it is.
C14_LogIsTheSequenceOfWrites ==
    /\ [](updated_files = WritesFrom(1))
    /\ [][/\ (updated_files' # updated_files) <=> (disk' # disk)
          /\ (updated_files' # updated_files) <=>
                (WritesFrom(1)' # WritesFrom(1))
          /\ (updated_files' # updated_files) =>
                \E p \in WalkPaths \cup {RootPath, TauriPaths[1], TauriPaths[2]} :
                    /\ updated_files' = Append(updated_files, p)
                    /\ disk'[FileOf(p)] # disk[FileOf(p)]
                    /\ \A f \in Files \ {FileOf(p)} : disk'[f] = disk[f]
         ]_vars

\* a virtual workspace root, member b filtered out by only = [a] and no
\* application config: the log is the one write of a's manifest
C14_Witness ==
    /\ VersionsUpdated
    /\ args.only = {"a"} /\ args.exclude = {}
    /\ disk0["Cargo.toml"] = Some(WsDoc)
    /\ IsSome(disk0["b/Cargo.toml"])
    /\ ~Exists(disk0, TauriPaths[1]) /\ ~Exists(disk0, TauriPaths[2])
    /\ updated_files = <<"./a/Cargo.toml">>
    /\ ~Changed("b/Cargo.toml") /\ ~Changed("Cargo.toml")

-----------------------------------------------------------------------------
(* C15 *)

\* C15: the number update_versions reports at its end, the length of the
\* updated-files log, is the number of distinct files rewritten in the
\* run, and no two entries of the log name the same file.
C15_CountIsDistinctFilesRewritten ==
    LET i == FirstOf("print_count") IN
    i # 0 =>
        /\ events[i].arg = Len(updated_files)
        /\ events[i].arg = Cardinality({f \in Files : Changed(f)})
        /\ \A j, k \in 1..Len(updated_files) :
                FileOf(updated_files[j]) = FileOf(updated_files[k]) => j = k

-----------------------------------------------------------------------------
(* C16 *)

\* the manifest document declares a workspace / a shared default version
HasWorkspace(t) == "workspace" \in DOMAIN t

HasSharedVersion(t) ==
    /\ HasWorkspace(t)
    /\ "package" \in DOMAIN t.workspace
    /\ "version" \in DOMAIN t.workspace.package

\* a manifest document with its workspace.package.version taken out
ExceptSharedVersion(t) ==
    [t EXCEPT !.workspace.package = Without(t.workspace.package, {"version"})]

\* C16: the first step of multi-package mode, made before the directory
\* walk and so before any manifest is processed by the single-package
\* procedure and with an empty log: if the root manifest declares a shared
\* default version, that field becomes the requested version, the rest of
\* the root manifest and every other file stay as they are and the log
\* becomes the root manifest path alone, whatever exclude and only hold; if
\* it declares none, the step changes no file and records nothing.  Either
\* way the run goes on to the walk, and the root path stays first in the
\* log.
C16_SharedVersionRewrittenFirst ==
    /\ [][pc = "update_root_workspace_version" =>
            LET root == ReadFile(disk, RootPath) IN
            /\ updated_files = <<>> /\ disk = disk0
            /\ HasWorkspace(root)
            /\ pc' = "find_all_cargo_toml" /\ result' = "running"
            /\ IF HasSharedVersion(root)
               THEN /\ ReadFile(disk', RootPath).workspace.package.version
                            = args.version
                    /\ ExceptSharedVersion(ReadFile(disk', RootPath))
                            = ExceptSharedVersion(root)
                    /\ \A f \in Files \ {RootPath} : disk'[f] = disk[f]
                    /\ updated_files' = <<RootPath>>
               ELSE /\ disk' = disk
                    /\ updated_files' = <<>>
         ]_vars
    /\ []((pc \in {"find_all_cargo_toml", "update_workspace_versions"}
            /\ HasSharedVersion(Unwrap(disk0[RootPath]))) =>
                /\ updated_files # <<>> /\ updated_files[1] = RootPath
                /\ ReadFile(disk, RootPath).workspace.package.version
                        = args.version)

\* the shared version was rewritten although every crate is filtered out
C16_Witness ==
    /\ pc = "update_tauri_config"
    /\ args.only = {"b"} /\ args.exclude = {"a", "b"}
    /\ disk0[RootPath] = Some(WsVerPkgDoc)
    /\ IsSome(disk0["a/Cargo.toml"]) /\ IsSome(disk0["b/Cargo.toml"])
    /\ updated_files = <<RootPath>>
    /\ ReadFile(disk, RootPath).workspace.package.version = args.version
    /\ ReadFile(disk, RootPath).package.version = OldVersion
    /\ ~Changed("a/Cargo.toml") /\ ~Changed("b/Cargo.toml")

-----------------------------------------------------------------------------
(* C17 *)

\* the paths of the directory walk that name an existing manifest
Discovered == {p \in WalkPaths : Exists(disk0, p)}

\* the positions of run() that belong to multi-package mode only
MultiPackagePcs ==
    {"update_root_workspace_version", "find_all_cargo_toml",
     "update_workspace_versions"}

\* the manifest processing of update_versions is over without error
ManifestsProcessed ==
    pc \in {"update_tauri_config", "dry_run"} \/ VersionsUpdated

\* the single-package update procedure has been applied to the manifest at
\* path p, as its result shows: a package that the filters let through
\* has the requested version and p is in the log, any other manifest is
\* not in the log under p
Applied(p) ==
    LET doc0 == ReadFile(disk0, p) IN
    IF "package" \in DOMAIN doc0 /\ ~skip_crate(args, doc0.package.name)
    THEN /\ ReadFile(disk, p).package.version = args.version
         /\ InLog(p)
    ELSE ~InLog(p)

\* C17: the root manifest decides the mode.  If it declares no workspace,
\* the run never enters multi-package mode, no descendant manifest ever
\* changes and the only manifest path the log can hold is the root
\* manifest, processed by the single-package procedure.  If it declares a
\* workspace, the directory walk lists every existing manifest of the
\* tree once, the root manifest included, and when the manifest processing
\* is over the single-package procedure has been applied to each of them.
C17_ModeSelectionAndFrame ==
    /\ [](Exists(disk0, RootPath) =>
            IF ~HasWorkspace(Unwrap(disk0[RootPath]))
            THEN /\ pc \notin MultiPackagePcs
                 /\ ~Changed("a/Cargo.toml") /\ ~Changed("b/Cargo.toml")
                 /\ \A i \in 1..Len(updated_files) :
                        updated_files[i] = RootPath \/ IsTauriPath(updated_files[i])
                 /\ ManifestsProcessed => Applied(RootPath)
            ELSE /\ pc # "update_single_crate"
                 /\ ManifestsProcessed =>
                        /\ "./Cargo.toml" \in Discovered
                        /\ \A p \in Discovered : Applied(p))
    /\ [][pc = "find_all_cargo_toml" =>
            /\ {cargo_toml_files'[i] : i \in 1..Len(cargo_toml_files')} = Discovered
            /\ Len(cargo_toml_files') = Cardinality(Discovered)
         ]_vars

\* single-package mode with member manifests in the tree: the root was
\* rewritten, the descendants are as they were
C17_Witness ==
    /\ VersionsUpdated
    /\ disk0[RootPath] = Some(PkgDoc("a"))
    /\ disk0["a/Cargo.toml"] = Some(PkgDoc("a"))
    /\ disk0["b/Cargo.toml"] = Some(PkgDoc("b"))
    /\ args.exclude = {} /\ args.only = {}
    /\ ReadFile(disk, RootPath).package.version = args.version
    /\ ~Changed("a/Cargo.toml") /\ ~Changed("b/Cargo.toml")

-----------------------------------------------------------------------------
(* C18 *)

\* C18: when the single-package update procedure processes a manifest
\* that parses and has no package section, the step writes no file,
\* records nothing, invokes nothing, and the run is still running: in the
\* loop of multi-package mode it goes on with the next manifest of the
\* walk, and after the last one (or in single-package mode) with the
\* application config.
C18_NoPackageSectionIsSkipped ==
    [][\A p \in WalkPaths \cup {RootPath} :
        (/\ Processing(p)
         /\ CargoTomlParses(ReadFile(disk, p))
         /\ "package" \notin DOMAIN ReadFile(disk, p)) =>
            /\ disk' = disk
            /\ updated_files' = updated_files
            /\ events' = events
            /\ result' = "running" /\ exit_code' = -1
            /\ IF pc = "update_workspace_versions" /\ Tail(cargo_toml_files) # <<>>
               THEN /\ pc' = "update_workspace_versions"
                    /\ cargo_toml_files' = Tail(cargo_toml_files)
               ELSE pc' = "update_tauri_config"
      ]_vars

\* the walk listed the virtual workspace root first: it was skipped and the
\* two member manifests are still to be processed
C18_Witness ==
    /\ pc = "update_workspace_versions"
    /\ disk0[RootPath] = Some(WsDoc)
    /\ Len(cargo_toml_files) = 2
    /\ \A i \in 1..2 : cargo_toml_files[i] # "./Cargo.toml"
    /\ updated_files = <<>> /\ disk = disk0
    /\ result = "running"

-----------------------------------------------------------------------------
(* C19 *)

\* the file the i-th entry of the log names carries the requested version
\* in the field that write set: the shared version for the root manifest
\* recorded under its bare path in multi-package mode, the top-level
\* version for an application config, package.version otherwise
CarriesVersion(i) ==
    LET p == updated_files[i]
        doc == ReadFile(disk, p)
    IN  IF IsTauriPath(p) THEN doc.version = args.version
        ELSE IF p = RootPath /\ HasWorkspace(doc)
             THEN doc.workspace.package.version = args.version
             ELSE doc.package.version = args.version

\* C19: the tag query is made only after update_versions has ended with
\* its summary, git add has been invoked and then git commit, in that
\* order and directly before the query.  So when a run has failed with
\* TagAlreadyExists, the query was its last command, the files it rewrote
\* are still rewritten (every file of the log carries the requested
\* version, and exactly the files of the log differ from what they were
\* at the start), the commit has been attempted, and no push of any kind
\* has been invoked.
C19_NoRollbackOnTagAlreadyExists ==
    LET q == FirstOf("tag_list") IN
    /\ q # 0 =>
        /\ q >= 6
        /\ events[q - 1].cmd = "commit"
        /\ events[q - 2].cmd = "add"
        /\ IsEvent(q - 3, "print_count", Len(updated_files))
    /\ result = "TagAlreadyExists" =>
        /\ q # 0 /\ q = Len(events)
        /\ \A i \in 1..Len(updated_files) : CarriesVersion(i)
        /\ \A f \in Files :
                Changed(f) <=> \E i \in 1..Len(updated_files) :
                                    FileOf(updated_files[i]) = f
        /\ \A c \in PushCmds \cup {"push_delete"} : ~Invoked(c)

\* a run that rewrote the shared version, a manifest and the application
\* config has failed on the existing tag
C19_Witness ==
    /\ result = "TagAlreadyExists"
    /\ Len(updated_files) >= 3
    /\ updated_files[1] = RootPath
    /\ IsTauriPath(Last(updated_files))
    /\ Changed(RootPath) /\ Changed(FileOf(Last(updated_files)))
    /\ Invoked("commit")

-----------------------------------------------------------------------------
(* C20 *)

\* the tag query has answered that there is no such tag
TagAbsent == \E i \in 1..Len(events) : IsEvent(i, "tag_list", "absent")

DeletionCmds == {"tag_delete", "push_delete"}

\* C20: a deletion of the local tag or a push --delete to a remote is
\* invoked only in a run with re_publish whose tag query answered that the
\* tag exists.  In a run whose query answered that there is no such tag,
\* with or without re_publish, no deletion is ever invoked and no remote
\* is listed for deletion: the command after the query is the creation of
\* the tag.
C20_DeletionOnlyOfAnExistingTag ==
    /\ (\E i \in 1..Len(events) : events[i].cmd \in DeletionCmds) =>
            (TagFound /\ args.re_publish /\ ~args.dry_run)
    /\ TagAbsent =>
            LET q == FirstOf("tag_list") IN
            /\ \A i \in 1..Len(events) : events[i].cmd \notin DeletionCmds
            /\ Len(events) > q => IsEvent(q + 1, "tag_create", tag_name(args))
            /\ Len(events) = q => pc = "tag_create"

\* a re-publishing run whose tag was not there has pushed to its remotes
\* without any deletion
C20_Witness ==
    /\ args.re_publish
    /\ TagAbsent
    /\ pc = "done" /\ result = "Ok"
    /\ Len(Remotes) >= 1
    /\ Invoked("push_tags")
    /\ ~Invoked("tag_delete") /\ ~Invoked("push_delete")

-----------------------------------------------------------------------------
====
